---- MODULE Spec2Model ----
(***************************************************************************)
(* Blog archive pipeline: backup_blog.py (Tistory) and backup_naver.py     *)
(* (Naver) fetch posts, download their images and write one record per     *)
(* post; convert_to_wxr.py and generate_wxr_naver.py read the records back *)
(* and emit one export document.                                           *)
(***************************************************************************)
EXTENDS Integers, Sequences, FiniteSets, TLC

\* ------------------------------------------------------------------ bounds
MaxUnits == 3        \* identifiers submitted in one batch run
MaxWorkers == 2      \* --workers of the batch specification
MaxImgs == 2         \* images per post body in the single-post specification
MaxRuns == 2         \* consecutive runs of the single-post specification
MaxFiles == 2        \* record files in the directory the exporter reads
MaxRefs == 2         \* image references in a record the exporter reads
MaxPages == 2        \* max_pages of get_post_list (100 by default)
CountPerPage == 2    \* countPerPage, the page size get_post_list asks for (30)
MaxLogNo == 2        \* the logNo values a post list can hold

\* ------------------------------------------------------------- data: URLs
\* A URL is scheme://host/img/<name><ext>.  scheme "" is a src that does not
\* start with http: or https: (a relative or data: reference).
Url(s, h, n, e) == [scheme |-> s, host |-> h, name |-> n, ext |-> e]
NoUrl == Url("", "", "", "")
Uax == Url("http:", "a", "x", ".jpg")
Ubx == Url("http:", "b", "x", ".jpg")     \* same basename as Uax, other host
Uay == Url("https:", "a", "y", "")        \* no extension in the path
Ublank == Url("http:", "a", "blank", ".gif")
Urel == Url("", "", "icon", ".gif")       \* /skin/icon.gif

\* An <img> element: its src, data-lazy-src and data-src attributes.
Img(s, l, d) == [src |-> s, lazy |-> l, data |-> d]
ImgA == Img(Uax, NoUrl, NoUrl)
ImgB == Img(Ubx, NoUrl, NoUrl)
ImgC == Img(Uay, NoUrl, NoUrl)
ImgL == Img(Ubx, Uay, NoUrl)              \* lazy-loaded: real source in data-lazy-src
ImgD == Img(Ublank, NoUrl, Uax)           \* placeholder src, real source in data-src
ImgR == Img(Urel, NoUrl, NoUrl)

PostImgs == {ImgA, ImgB, ImgC, ImgL, ImgD, ImgR}

\* A local file name <name>[_<n>]<ext>; n = 0 is "no counter suffix".
File(n, e, c) == [name |-> n, ext |-> e, n |-> c]
NoFile == File("", "", 0)

\* The value of a src attribute / a markdown image target:
\*   none   - no src;   remote - the URL url;
\*   local  - "../images/<folder>/<file>", or "../images/<folder>/<url>" when
\*            file = NoFile (download_image returned the URL itself).
Src(k, fo, fi, u) == [kind |-> k, folder |-> fo, file |-> fi, url |-> u]
NoSrc == Src("none", 0, NoFile, NoUrl)
Remote(u) == IF u = NoUrl THEN NoSrc ELSE Src("remote", 0, NoFile, u)

\* ------------------------------------------------- data: documents, records
\* A fetched post page: the outcome of the GET, whether a title element and a
\* content container are found in it, and the <img> elements of the container.
Doc(st, t, c, im) == [status |-> st, title |-> t, content |-> c, imgs |-> im]
NoDoc == Doc("none", FALSE, FALSE, <<>>)

SeqsUpTo(S, n) == UNION {[1..m -> S] : m \in 0..n}

Docs(imgSet, n) ==
    {Doc("notfound", FALSE, FALSE, <<>>), Doc("error", FALSE, FALSE, <<>>)}
    \cup {Doc("found", t, FALSE, <<>>) : t \in BOOLEAN}
    \cup {Doc("found", t, TRUE, im) : t \in BOOLEAN, im \in SeqsUpTo(imgSet, n)}

\* The pages of the batch specification: a missing post, a failed GET, a page
\* with a body but no title, one with a title but no body, and a full post.
BatchDocs ==
    {Doc("notfound", FALSE, FALSE, <<>>), Doc("error", FALSE, FALSE, <<>>),
     Doc("found", FALSE, TRUE, <<>>), Doc("found", TRUE, FALSE, <<>>),
     Doc("found", TRUE, TRUE, <<ImgA>>)}

\* The text of a record file, token by token.
Tok(t, k, v, s) == [t |-> t, key |-> k, val |-> v, src |-> s]
Delim == Tok("delim", "", 0, NoSrc)
Meta(k, v) == Tok("meta", k, v, NoSrc)
ImgTok(s) == Tok("img", "", 0, s)

\* A file on disk.
FileOf(txt) == [exists |-> TRUE, text |-> txt]
Absent == [exists |-> FALSE, text |-> <<>>]

Prefix(s, n) == SubSeq(s, 1, n)

\* ------------------------------------------------------------------ state
VARIABLES
    variant,      \* "tistory" (backup_blog.py) or "naver" (backup_naver.py)
    workers,      \* args.workers
    idOf,         \* the submitted units: unit -> post identifier
    pc,           \* unit -> "queued" | "images" | "write" | "done"
    doc,          \* unit -> the document its GET returned
    k,            \* unit -> number of <img> elements already processed
    body,         \* unit -> src of each <img> of content_elem, as rewritten so far
    result,       \* unit -> "none" | "true" | "false" | "raised" (the future)
    posts,        \* disk: identifier -> <output>/posts/<id>.md
    images,       \* disk: identifier -> files in <output>/images/<id>/
    found_count,  \* main's found_count / success_count
    reported,     \* units whose future main has already consumed
    mainpc,       \* "collect" | "done"
    run,          \* number of the current run of main
    fetches,      \* history: unit -> image GETs it issued, [i, url, ok, existed]
    touched,      \* history: identifiers whose record path was opened this run
    torn,         \* history: identifiers whose last record write failed partway
    prior,        \* history: the images on disk when the current run started
    listing,      \* exporter: the record paths as glob returned them
    xi,           \* exporter: number of listed files already handled
    out,          \* exporter: the items written/collected so far
    xpc,          \* exporter: "idle" | "loop" | "done" | "aborted"
    xfile,        \* exporter: the output file, "none" | "open" | "complete"
    diag,         \* exporter: identifiers a diagnostic was printed for
    corpus,       \* the documents the remote site can serve
    errlog,       \* history: identifiers main printed an error for
    date_str,     \* date normalization: the 'date' value of a record
    stamp,        \* date normalization: the pubDate/post_date it produced
    page,         \* get_post_list: the last page requested (0: none yet)
    post_list,    \* get_post_list: posts, then main's posts
    lpc,          \* get_post_list: "idle" | "paging" | "returned" | "submitted"
    served,       \* history: the response to each page requested
    limit         \* args.limit

unitVars == <<pc, doc, k, body, result>>
diskVars == <<posts, images>>
mainVars == <<found_count, reported, mainpc>>
histVars == <<fetches, touched, torn, prior, errlog>>
exportVars == <<listing, xi, out, xpc, xfile, diag>>
cfgVars == <<variant, workers, idOf, corpus>>
dateVars == <<date_str, stamp>>
listVars == <<page, post_list, lpc, served, limit>>
toolVars == <<dateVars, listVars>>
vars == <<variant, workers, idOf, pc, doc, k, body, result, posts, images,
          found_count, reported, mainpc, run, fetches, touched, torn, prior,
          listing, xi, out, xpc, xfile, diag, corpus, errlog,
          date_str, stamp, page, post_list, lpc, served, limit>>

Units == DOMAIN idOf
Ids == 1..MaxUnits

\* A timestamp as strftime('%Y-%m-%d %H:%M:%S') prints it, field by field;
\* Now is datetime.now(), NoStamp is "nothing produced yet".
Stamp(y, mo, d, h, mi, s) ==
    [kind |-> "at", y |-> y, mo |-> mo, d |-> d, h |-> h, mi |-> mi, s |-> s]
Now == [kind |-> "now", y |-> 0, mo |-> 0, d |-> 0, h |-> 0, mi |-> 0, s |-> 0]
NoStamp == [kind |-> "none", y |-> 0, mo |-> 0, d |-> 0, h |-> 0, mi |-> 0, s |-> 0]

\* Neither the date normalization nor get_post_list has been entered.
ToolsIdle ==
    /\ date_str = <<>>
    /\ stamp = NoStamp
    /\ page = 0
    /\ post_list = <<>>
    /\ lpc = "idle"
    /\ served = <<>>
    /\ limit = 0

\* --------------------------------------------------------- download_image
\* The response to an image GET: ok = the GET and raise_for_status pass (the
\* body then streams to the end), ctype = its Content-Type.
Resp(o, ct) == [ok |-> o, ctype |-> ct]
Responses(url) ==
    {Resp(FALSE, "")}
    \cup {Resp(TRUE, ct) :
            ct \in (IF url.ext = "" THEN {"image/png", "text/html"} ELSE {"image/jpeg"})}

ExtOfType(ct) ==
    CASE ct \in {"image/jpeg", "image/jpg"} -> ".jpg"
      [] ct = "image/png" -> ".png"
      [] ct = "image/gif" -> ".gif"
      [] ct = "image/webp" -> ".webp"
      [] OTHER -> ".jpg"

\* os.path.basename of the URL path, split by os.path.splitext, with the
\* extension inferred from Content-Type when the path has none.  (Names of
\* the URL universe are non-empty and at most 50 characters long, extensions
\* at most 5.)
DerivedName(url, resp) ==
    File(url.name, IF url.ext = "" THEN ExtOfType(resp.ctype) ELSE url.ext, 0)

\* backup_naver.py: the while os.path.exists loop, counter = 1, 2, ...
NextFree(files, f) ==
    IF f \notin files THEN f
    ELSE LET taken(c) == File(f.name, f.ext, c) \in files
             c == CHOOSE c \in 1..(Cardinality(files) + 1) :
                      ~taken(c) /\ \A d \in 1..(c - 1) : taken(d)
         IN File(f.name, f.ext, c)

\* What download_image does: file = the file name it returns (NoFile: it
\* returns the url itself), fetched = a GET was issued, created = the file
\* it opened for writing (NoFile: none).
Dl(f, g, c) == [file |-> f, fetched |-> g, created |-> c]

DownloadTistory(url, files, resp) ==
    IF url.scheme = "" THEN Dl(NoFile, FALSE, NoFile)
    ELSE IF ~resp.ok THEN Dl(NoFile, TRUE, NoFile)
    ELSE LET f == DerivedName(url, resp)
         IN IF f \in files THEN Dl(f, TRUE, NoFile) ELSE Dl(f, TRUE, f)

DownloadNaver(url, files, resp) ==
    IF url.scheme = "" THEN Dl(NoFile, FALSE, NoFile)
    ELSE IF ~resp.ok THEN Dl(NoFile, TRUE, NoFile)
    ELSE LET f == NextFree(files, DerivedName(url, resp))
         IN Dl(f, TRUE, f)

download_image(v, url, files, resp) ==
    IF v = "tistory" THEN DownloadTistory(url, files, resp)
    ELSE DownloadNaver(url, files, resp)

\* ------------------------------------------------------------ backup_post
\* backup_post returns False before it touches the disk.
SkipTistoryNoTitleCheck(d) == d.status # "found"
SkipTistory(d) == d.status # "found" \/ ~d.title
SkipNaver(d) == d.status # "found" \/ ~d.content
SkipDoc(v, d) == IF v = "tistory" THEN SkipTistory(d) ELSE SkipNaver(d)

\* 'blank' in src or 'pixel' in src
IsPlaceholder(url) == url.name \in {"blank", "pixel"}

\* The URL handed to download_image for an <img>; NoUrl: the element is skipped.
SourceTistory(img) == img.src
SourceNaver(img) ==
    IF img.src = NoUrl \/ IsPlaceholder(img.src) THEN NoUrl
    ELSE IF img.lazy # NoUrl THEN img.lazy
    ELSE IF img.data # NoUrl THEN img.data
    ELSE img.src
EffectiveSrc(v, img) == IF v = "tistory" THEN SourceTistory(img) ELSE SourceNaver(img)

\* img['src'] = f"../images/{post_id}/{filename}"
Rewritten(id, url, r) ==
    Src("local", id, r.file, IF r.file = NoFile THEN url ELSE NoUrl)

\* frontmatter + content_md
Frontmatter(v, id) ==
    <<Delim, Meta("title", 0), Meta("date", 0)>>
    \o (IF v = "tistory" THEN <<Meta("category", 0)>> ELSE <<>>)
    \o <<Meta("id", id), Meta("url", 0), Delim>>
Markdown(b) == [i \in 1..Len(b) |-> ImgTok(b[i])]
RecordText(v, id, b) == Frontmatter(v, id) \o Markdown(b)

Running == {u \in Units : pc[u] \in {"images", "write"}}

\* The unit's future completes; its locals are gone.
Finish(u, res) ==
    /\ pc' = [pc EXCEPT ![u] = "done"]
    /\ result' = [result EXCEPT ![u] = res]
    /\ k' = [k EXCEPT ![u] = 0]
    /\ body' = [body EXCEPT ![u] = <<>>]

\* backup_post up to os.makedirs: GET the page, locate title and content.
\* The executor hands queued units to free workers in submission order.
Fetch(u) ==
    /\ pc[u] = "queued"
    /\ Cardinality(Running) < workers
    /\ \A w \in Units : w < u => pc[w] # "queued"
    /\ \E d \in corpus :
        /\ doc' = [doc EXCEPT ![u] = d]
        /\ IF SkipDoc(variant, d)
           THEN Finish(u, "false")
           ELSE /\ pc' = [pc EXCEPT ![u] =
                            IF d.content /\ Len(d.imgs) > 0 THEN "images" ELSE "write"]
                /\ body' = [body EXCEPT ![u] = [i \in 1..Len(d.imgs) |-> Remote(d.imgs[i].src)]]
                /\ UNCHANGED <<result, k>>
    /\ UNCHANGED <<diskVars, mainVars, histVars, exportVars, cfgVars, toolVars, run>>

\* One iteration of "for img in content_elem.find_all('img')".
ResolveImage(u) ==
    /\ pc[u] = "images"
    /\ LET i == k[u] + 1
           id == idOf[u]
           url == EffectiveSrc(variant, doc[u].imgs[i])
       IN /\ k' = [k EXCEPT ![u] = i]
          /\ pc' = [pc EXCEPT ![u] = IF i = Len(doc[u].imgs) THEN "write" ELSE "images"]
          /\ IF url = NoUrl
             THEN UNCHANGED <<body, images, fetches>>
             ELSE \E resp \in Responses(url) :
                    LET r == download_image(variant, url, images[id], resp)
                    IN /\ body' = [body EXCEPT ![u][i] = Rewritten(id, url, r)]
                       /\ images' = [images EXCEPT ![id] =
                                        IF r.created = NoFile THEN @ ELSE @ \cup {r.created}]
                       /\ fetches' = [fetches EXCEPT ![u] =
                                        IF r.fetched
                                        THEN Append(@, [i |-> i, url |-> url,
                                                        ok |-> resp.ok,
                                                        existed |-> resp.ok /\ DerivedName(url, resp) \in prior[id]])
                                        ELSE @]
    /\ UNCHANGED <<doc, result, posts, mainVars, touched, torn, prior, errlog,
                   exportVars, cfgVars, toolVars, run>>

\* with open(filepath, 'w') as f: f.write(frontmatter + content_md).
\* n = -1: open fails; n = Len - 1: the write fails when all but the last
\* token reached the file; n = Len: the write completes and backup_post
\* returns True.
WriteOutcomes(text) == {-1, Len(text) - 1, Len(text)}
WriteRecord(u) ==
    /\ pc[u] = "write"
    /\ LET id == idOf[u]
           text == RecordText(variant, id, body[u])
       IN \E n \in WriteOutcomes(text) :
            /\ posts' = [posts EXCEPT ![id] = IF n = -1 THEN @ ELSE FileOf(Prefix(text, n))]
            /\ touched' = IF n = -1 THEN touched ELSE touched \cup {id}
            /\ torn' = CASE n = -1 -> torn
                         [] n = Len(text) -> torn \ {id}
                         [] OTHER -> torn \cup {id}
            /\ Finish(u, IF n = Len(text) THEN "true" ELSE "raised")
    /\ UNCHANGED <<doc, images, mainVars, fetches, prior, errlog,
                   exportVars, cfgVars, toolVars, run>>

\* --------------------------------------------------------------------- main
\* if future.result(): found_count += 1
CountedAll(res) == res # "raised"
Counted(res) == res = "true"

\* The loop body without its try/except: the exception leaves main.
CollectUncaught(u) ==
    /\ mainpc = "collect"
    /\ pc[u] = "done"
    /\ u \notin reported
    /\ reported' = reported \cup {u}
    /\ found_count' = IF Counted(result[u]) THEN found_count + 1 ELSE found_count
    /\ mainpc' = IF result[u] = "raised" THEN "aborted" ELSE mainpc
    /\ UNCHANGED <<unitVars, diskVars, histVars, exportVars, cfgVars, toolVars, run>>

\* One iteration of "for future in as_completed(...)": future.result()
\* returns the unit's value or re-raises its exception, which is printed.
Collect(u) ==
    /\ mainpc = "collect"
    /\ pc[u] = "done"
    /\ u \notin reported
    /\ reported' = reported \cup {u}
    /\ found_count' = IF Counted(result[u]) THEN found_count + 1 ELSE found_count
    /\ errlog' = IF result[u] = "raised" THEN errlog \cup {idOf[u]} ELSE errlog
    /\ UNCHANGED <<mainpc, unitVars, diskVars, fetches, touched, torn, prior,
                   exportVars, cfgVars, toolVars, run>>

\* print("Backup complete. ...")
Summary ==
    /\ mainpc = "collect"
    /\ reported = Units
    /\ mainpc' = "done"
    /\ UNCHANGED <<found_count, reported, unitVars, diskVars, histVars,
                   exportVars, cfgVars, toolVars, run>>

\* The script is run again over the same output directory.
StartRun ==
    /\ mainpc = "done"
    /\ run < MaxRuns
    /\ run' = run + 1
    /\ pc' = [u \in Units |-> "queued"]
    /\ doc' = [u \in Units |-> NoDoc]
    /\ k' = [u \in Units |-> 0]
    /\ body' = [u \in Units |-> <<>>]
    /\ result' = [u \in Units |-> "none"]
    /\ found_count' = 0
    /\ reported' = {}
    /\ mainpc' = "collect"
    /\ fetches' = [u \in Units |-> <<>>]
    /\ touched' = {}
    /\ prior' = images
    /\ errlog' = {}
    /\ UNCHANGED <<diskVars, torn, exportVars, cfgVars, toolVars>>

InitRun(n) ==
    /\ idOf = [u \in 1..n |-> u]
    /\ pc = [u \in 1..n |-> "queued"]
    /\ doc = [u \in 1..n |-> NoDoc]
    /\ k = [u \in 1..n |-> 0]
    /\ body = [u \in 1..n |-> <<>>]
    /\ result = [u \in 1..n |-> "none"]
    /\ posts = [i \in Ids |-> Absent]
    /\ images = [i \in Ids |-> {}]
    /\ found_count = 0
    /\ reported = {}
    /\ mainpc = "collect"
    /\ run = 1
    /\ fetches = [u \in 1..n |-> <<>>]
    /\ touched = {}
    /\ torn = {}
    /\ prior = [i \in Ids |-> {}]
    /\ errlog = {}
    /\ listing = <<>>
    /\ xi = 0
    /\ out = <<>>
    /\ xpc = "idle"
    /\ xfile = "none"
    /\ diag = {}
    /\ ToolsIdle

\* A batch run of main over MaxUnits identifiers, into an empty directory.
Init ==
    /\ variant \in {"tistory", "naver"}
    /\ workers = MaxWorkers
    /\ corpus = BatchDocs
    /\ InitRun(MaxUnits)

Next ==
    \/ \E u \in Units : Fetch(u)
    \/ \E u \in Units : ResolveImage(u)
    \/ \E u \in Units : WriteRecord(u)
    \/ \E u \in Units : Collect(u)
    \/ Summary

Spec == Init /\ [][Next]_vars

\* Repeated runs of main over one identifier with a richer page.
InitPost ==
    /\ variant \in {"tistory", "naver"}
    /\ workers = 1
    /\ corpus = Docs(PostImgs, MaxImgs)
    /\ InitRun(1)

NextPost ==
    \/ Next
    \/ StartRun

SpecPost == InitPost /\ [][NextPost]_vars

\* ---------------------------------------------------------------- exporters
\* content.split('---', 2) / re.split(r'^---$', content, maxsplit=2): the text
\* before the first delimiter, between the first two, and all the rest.
DelimAt(text) == {i \in 1..Len(text) : text[i].t = "delim"}
Min(S) == CHOOSE x \in S : \A y \in S : x <= y
Parsed(ok, id, b) == [ok |-> ok, id |-> id, body |-> b]
NoParse == Parsed(FALSE, 0, <<>>)

\* meta.get('id', 0)
MetaId(meta) ==
    LET at == {i \in 1..Len(meta) : meta[i].t = "meta" /\ meta[i].key = "id"}
    IN IF at = {} THEN 0 ELSE meta[CHOOSE i \in at : \A j \in at : j <= i].val

\* The record as the exporters read it: NoParse when len(parts) < 3.
ParseRecord(text) ==
    LET d == DelimAt(text)
    IN IF Cardinality(d) < 2 THEN NoParse
       ELSE LET a == Min(d)
                b == Min(d \ {a})
            IN Parsed(TRUE, MetaId(SubSeq(text, a + 1, b - 1)),
                      [i \in 1..(Len(text) - b) |-> text[b + i].src])

\* An absolute URL <base>/<folder>/<file>, or <base>/<folder>/<url> when the
\* record's reference embeds a URL and the exporter keeps it whole.
Abs(fo, fi, u) == Src("abs", fo, fi, u)

\* convert_to_wxr.parse_markdown_file: every src="../..." is rewritten.
RewriteTistory(refs) ==
    [i \in 1..Len(refs) |->
        IF refs[i].kind = "local"
        THEN Abs(refs[i].folder, refs[i].file, refs[i].url)
        ELSE refs[i]]

\* generate_wxr_naver.image_replacer: folder = first segment after /images/,
\* filename = last segment.  NoSrc: the reference has no /images/ part.
NewUrl(r) ==
    IF r.kind = "local"
    THEN Abs(r.folder,
             IF r.file # NoFile THEN r.file ELSE File(r.url.name, r.url.ext, 0),
             NoUrl)
    ELSE NoSrc

\* generate_wxr_naver.process_markdown_content with its seen_images set.
RECURSIVE ReplaceNaver(_, _)
ReplaceNaver(refs, seen) ==
    IF refs = <<>> THEN <<>>
    ELSE LET r == Head(refs)
             nu == NewUrl(r)
         IN IF nu = NoSrc THEN <<r>> \o ReplaceNaver(Tail(refs), seen)
            ELSE IF nu \in seen THEN ReplaceNaver(Tail(refs), seen)
            ELSE <<nu>> \o ReplaceNaver(Tail(refs), seen \cup {nu})
RewriteNaver(refs) == ReplaceNaver(refs, {})

ExportBody(v, refs) == IF v = "tistory" THEN RewriteTistory(refs) ELSE RewriteNaver(refs)

Item(id, b) == [id |-> id, body |-> b]

\* The orders in which glob may list the record files.
Globs == {s \in SeqsUpTo(Ids, Cardinality(Ids)) :
            /\ \A i, j \in 1..Len(s) : i # j => s[i] # s[j]
            /\ \A id \in Ids : posts[id].exists <=> \E i \in 1..Len(s) : s[i] = id}

\* files.sort(key=lambda x: int(os.path.basename(x).split('.')[0]))
RECURSIVE SortById(_)
SortById(s) ==
    IF s = <<>> THEN <<>>
    ELSE LET m == Min({s[i] : i \in 1..Len(s)})
         IN <<m>> \o SortById(SelectSeq(s, LAMBDA x : x # m))

\* The order in which the exporter walks the files glob returned.
FileOrder(v, g) == IF v = "tistory" THEN SortById(g) ELSE g

\* Up to the loop: convert_to_wxr.main globs, sorts, opens the output and
\* writes the header; generate_xml globs and starts an empty items_xml.
ExportStart ==
    /\ xpc = "idle"
    /\ \E g \in Globs : listing' = FileOrder(variant, g)
    /\ xfile' = IF variant = "tistory" THEN "open" ELSE "none"
    /\ xpc' = "loop"
    /\ UNCHANGED <<xi, out, diag, unitVars, diskVars, mainVars, histVars, cfgVars, toolVars, run>>

\* One iteration of the loop over the files.  fault = "read": open/read
\* raises, which neither exporter catches; fault = "convert": building the
\* item of a parsed record raises, which only generate_xml catches.
ExportFile ==
    /\ xpc = "loop"
    /\ xi < Len(listing)
    /\ LET id == listing[xi + 1]
           p == ParseRecord(posts[id].text)
       IN \E fault \in {"none", "read", "convert"} :
            /\ fault = "convert" => p.ok
            /\ IF fault = "read" \/ (fault = "convert" /\ variant = "tistory")
               THEN /\ xpc' = "aborted"
                    /\ UNCHANGED <<xi, out, diag>>
               ELSE /\ xi' = xi + 1
                    /\ out' = IF p.ok /\ fault = "none"
                              THEN Append(out, Item(p.id, ExportBody(variant, p.body)))
                              ELSE out
                    /\ diag' = IF variant = "naver" /\ (~p.ok \/ fault = "convert")
                               THEN diag \cup {id} ELSE diag
                    /\ UNCHANGED xpc
    /\ UNCHANGED <<listing, xfile, unitVars, diskVars, mainVars, histVars, cfgVars, toolVars, run>>

\* After the loop: the footer (convert_to_wxr) or the whole document
\* (generate_xml) is written.
ExportFinish ==
    /\ xpc = "loop"
    /\ xi = Len(listing)
    /\ xfile' = "complete"
    /\ xpc' = "done"
    /\ UNCHANGED <<listing, xi, out, diag, unitVars, diskVars, mainVars, histVars,
                   cfgVars, toolVars, run>>

\* The references a record written by backup_post can hold.
RecordRefs(id) ==
    {Src("local", id, File("x", ".jpg", 0), NoUrl),
     Src("local", id, File("y", ".png", 0), NoUrl),
     Src("local", id, NoFile, Ubx),
     Remote(Ublank)}

\* The files WriteRecord can leave at posts/<id>.md.
RecordFiles(v, id) ==
    UNION {{FileOf(Prefix(RecordText(v, id, b), n)) :
                n \in WriteOutcomes(RecordText(v, id, b)) \ {-1}} :
           b \in SeqsUpTo(RecordRefs(id), MaxRefs)}

\* The exporter run over a directory left by earlier backup runs.
InitExport ==
    /\ variant \in {"tistory", "naver"}
    /\ workers = 1
    /\ corpus = {}
    /\ idOf = <<>>
    /\ pc = <<>>
    /\ doc = <<>>
    /\ k = <<>>
    /\ body = <<>>
    /\ result = <<>>
    /\ posts \in {[i \in Ids |-> IF i <= MaxFiles THEN g[i] ELSE Absent] :
                    g \in {h \in [1..MaxFiles -> UNION {RecordFiles(variant, i) : i \in 1..MaxFiles}] :
                              \A i \in 1..MaxFiles : h[i] \in RecordFiles(variant, i)}}
    /\ images = [i \in Ids |-> {}]
    /\ found_count = 0
    /\ reported = {}
    /\ mainpc = "done"
    /\ run = 1
    /\ fetches = <<>>
    /\ touched = {}
    /\ torn = {}
    /\ prior = [i \in Ids |-> {}]
    /\ errlog = {}
    /\ listing = <<>>
    /\ xi = 0
    /\ out = <<>>
    /\ xpc = "idle"
    /\ xfile = "none"
    /\ diag = {}
    /\ ToolsIdle

NextExport ==
    \/ ExportStart
    \/ ExportFile
    \/ ExportFinish

SpecExport == InitExport /\ [][NextExport]_vars

\* ------------------------------------------------------- date normalization
\* A date string is a sequence of tokens: a run of digits (its value and its
\* number of digits) or one of the characters ".", " ", ":", "-".
Num(v, w) == [t |-> "num", v |-> v, w |-> w]
Ch(c) == [t |-> c, v |-> 0, w |-> 0]
Dot == Ch(".")
Sp == Ch(" ")
Colon == Ch(":")

\* The elements of s at the indices in I, in order.
Pick(s, I) ==
    [j \in 1..Cardinality(I) |->
        s[CHOOSE i \in I : Cardinality({x \in I : x <= i}) = j]]

\* re.sub(r'\s+', ' ', date_str).strip()
NormalizeSpaces(s) ==
    Pick(s, {i \in 1..Len(s) :
                \/ s[i] # Sp
                \/ /\ i > 1
                   /\ s[i - 1] # Sp
                   /\ \E j \in (i + 1)..Len(s) : s[j] # Sp})

\* len(date_str.split('.'))
SplitDots(s) == Cardinality({i \in 1..Len(s) : s[i] = Dot}) + 1

\* calendar.monthrange(y, mo)[1], which datetime() enforces.
DaysIn(y, mo) ==
    CASE mo \in {4, 6, 9, 11} -> 30
      [] mo = 2 -> IF y % 4 = 0 /\ (y % 100 # 0 \/ y % 400 = 0) THEN 29 ELSE 28
      [] OTHER -> 31

\* The fields strptime has read; ok = FALSE is its ValueError.
Fields(ok, y, mo, d, h, mi) == [ok |-> ok, y |-> y, mo |-> mo, d |-> d, h |-> h, mi |-> mi]
NoFields == Fields(FALSE, 0, 0, 0, 0, 0)

\* Whether the digit run n is a whole match of a directive's pattern:
\* %Y \d\d\d\d, %m 1[0-2]|0[1-9]|[1-9], %d 3[0-1]|[1-2]\d|0[1-9]|[1-9],
\* %H 2[0-3]|[0-1]\d|\d, %M [0-5]\d|\d.
Accepts(dir, n) ==
    /\ n.t = "num"
    /\ CASE dir = "Y" -> n.w = 4
         [] dir = "m" -> n.w \in {1, 2} /\ n.v \in 1..12 /\ (n.w = 1 => n.v <= 9)
         [] dir = "d" -> n.w \in {1, 2} /\ n.v \in 1..31 /\ (n.w = 1 => n.v <= 9)
         [] dir = "H" -> n.w \in {1, 2} /\ n.v \in 0..23 /\ (n.w = 1 => n.v <= 9)
         [] dir = "M" -> n.w \in {1, 2} /\ n.v \in 0..59 /\ (n.w = 1 => n.v <= 9)
         [] OTHER -> FALSE

\* _strptime: the format is matched against the whole string, directive by
\* directive; a space of the format matches one or more spaces, %d also
\* matches a space followed by one digit, and text left over is an error.
RECURSIVE Match(_, _, _)
Match(fmt, s, acc) ==
    IF fmt = <<>> THEN (IF s = <<>> THEN acc ELSE NoFields)
    ELSE IF s = <<>> THEN NoFields
    ELSE LET dir == Head(fmt)
             c == Head(s)
         IN CASE dir = " " ->
                    IF c # Sp THEN NoFields
                    ELSE LET rest == {i \in 1..Len(s) : s[i] # Sp}
                         IN IF rest = {} THEN Match(Tail(fmt), <<>>, acc)
                            ELSE Match(Tail(fmt), SubSeq(s, Min(rest), Len(s)), acc)
              [] dir \in {".", ":"} ->
                    IF c = Ch(dir) THEN Match(Tail(fmt), Tail(s), acc) ELSE NoFields
              [] dir = "Y" ->
                    IF Accepts("Y", c) THEN Match(Tail(fmt), Tail(s), [acc EXCEPT !.y = c.v])
                    ELSE NoFields
              [] dir = "m" ->
                    IF Accepts("m", c) THEN Match(Tail(fmt), Tail(s), [acc EXCEPT !.mo = c.v])
                    ELSE NoFields
              [] dir = "d" ->
                    IF Accepts("d", c) THEN Match(Tail(fmt), Tail(s), [acc EXCEPT !.d = c.v])
                    ELSE IF c = Sp /\ Len(s) > 1 /\ Accepts("d", s[2]) /\ s[2].w = 1
                    THEN Match(Tail(fmt), Tail(Tail(s)), [acc EXCEPT !.d = s[2].v])
                    ELSE NoFields
              [] dir = "H" ->
                    IF Accepts("H", c) THEN Match(Tail(fmt), Tail(s), [acc EXCEPT !.h = c.v])
                    ELSE NoFields
              [] dir = "M" ->
                    IF Accepts("M", c) THEN Match(Tail(fmt), Tail(s), [acc EXCEPT !.mi = c.v])
                    ELSE NoFields
              [] OTHER -> NoFields

\* datetime.strptime(s, fmt): fields default to 1900-01-01 00:00, and a day
\* the month does not have is a ValueError too.
strptime(s, fmt) ==
    LET f == Match(fmt, s, Fields(TRUE, 1900, 1, 1, 0, 0))
    IN IF f.ok /\ f.d <= DaysIn(f.y, f.mo) THEN f ELSE NoFields

\* dt.strftime('%Y-%m-%d %H:%M:%S')
strftime(f) == Stamp(f.y, f.mo, f.d, f.h, f.mi, 0)

FmtDate == <<"Y", ".", " ", "m", ".", " ", "d", ".">>                  \* '%Y. %m. %d.'
FmtFull == FmtDate \o <<" ", "H", ":", "M">>                           \* '%Y. %m. %d. %H:%M'
FmtTight == <<"Y", ".", "m", ".", "d", ".", " ", "H", ":", "M">>       \* '%Y.%m.%d. %H:%M'

\* generate_wxr_naver.parse_date
parse_date(str) ==
    LET s == NormalizeSpaces(str)
        first == IF SplitDots(s) = 4 THEN strptime(s, FmtDate) ELSE strptime(s, FmtFull)
        second == strptime(s, FmtTight)
    IN IF first.ok THEN strftime(first)
       ELSE IF second.ok THEN strftime(second)
       ELSE Now

\* convert_to_wxr.format_date
format_date(str) ==
    LET f == strptime(str, FmtFull)
    IN IF f.ok THEN strftime(f) ELSE Now

\* The date strings a record's 'date' field is drawn from: year, month and
\* day each followed by a dot (the last dot may be missing), with none, one
\* or two spaces after the first two dots, then nothing or a time with none,
\* one or two spaces before it; and two strings of another shape.
DateYears == {Num(2007, 4), Num(2026, 4)}
DateMonths == {Num(4, 1), Num(4, 2), Num(12, 2), Num(13, 2)}
DateDays == {Num(10, 2), Num(1, 1), Num(31, 2)}
DateGaps == {<<>>, <<Sp>>, <<Sp, Sp>>}
DateTimes ==
    {<<>>}
    \cup {g \o <<h, Colon, m>> :
            g \in DateGaps, h \in {Num(11, 2), Num(9, 1), Num(24, 2)},
            m \in {Num(32, 2), Num(5, 2)}}
DateInputs ==
    {<<y, Dot>> \o g1 \o <<mo, Dot>> \o g2 \o <<d>> \o end \o tm :
        y \in DateYears, mo \in DateMonths, d \in DateDays,
        g1 \in DateGaps, g2 \in DateGaps, end \in {<<>>, <<Dot>>}, tm \in DateTimes}
    \cup {<<>>,
          <<Num(2007, 4), Ch("-"), Num(4, 2), Ch("-"), Num(10, 2), Sp,
            Num(11, 2), Colon, Num(32, 2), Colon, Num(0, 2)>>}

\* No backup run and no export is in progress over an empty directory.
PipelineIdle ==
    /\ idOf = <<>>
    /\ pc = <<>>
    /\ doc = <<>>
    /\ k = <<>>
    /\ body = <<>>
    /\ result = <<>>
    /\ posts = [i \in Ids |-> Absent]
    /\ images = [i \in Ids |-> {}]
    /\ found_count = 0
    /\ reported = {}
    /\ mainpc = "done"
    /\ run = 1
    /\ fetches = <<>>
    /\ touched = {}
    /\ torn = {}
    /\ prior = [i \in Ids |-> {}]
    /\ errlog = {}
    /\ listing = <<>>
    /\ xi = 0
    /\ out = <<>>
    /\ xpc = "idle"
    /\ xfile = "none"
    /\ diag = {}

\* create_wxr_item / generate_xml normalize the record's date.
NormalizeDate ==
    /\ stamp = NoStamp
    /\ stamp' = IF variant = "tistory" THEN format_date(date_str) ELSE parse_date(date_str)
    /\ UNCHANGED <<date_str, listVars, unitVars, diskVars, mainVars, histVars,
                   exportVars, cfgVars, run>>

\* The exporter of either platform is handed one date string.
InitDate ==
    /\ variant \in {"tistory", "naver"}
    /\ workers = 1
    /\ corpus = {}
    /\ PipelineIdle
    /\ date_str \in DateInputs
    /\ stamp = NoStamp
    /\ page = 0
    /\ post_list = <<>>
    /\ lpc = "idle"
    /\ served = <<>>
    /\ limit = 0

NextDate == NormalizeDate

SpecDate == InitDate /\ [][NextDate]_vars

\* ------------------------------------------------------------ get_post_list
\* One entry of a page's postList: ok = it has the logNo, title and addDate
\* keys the loop reads (a missing key raises inside the loop).
PostEntry(n, ok) == [logNo |-> n, ok |-> ok]
LogNos == 1..MaxLogNo
PostEntries == {PostEntry(n, TRUE) : n \in LogNos} \cup {PostEntry(0, FALSE)}

\* What one page request comes to: "error" = the GET, raise_for_status or
\* json.loads raises; "nolist" = no 'postList' key; "list" = data['postList'].
PageResp(kind, items) == [kind |-> kind, items |-> items]
PageResponses ==
    {PageResp("error", <<>>), PageResp("nolist", <<>>)}
    \cup {PageResp("list", s) : s \in SeqsUpTo(PostEntries, CountPerPage)}

\* The index of the first entry the loop cannot read (Len + 1: none).
FirstBad(items) == Min({i \in 1..Len(items) : ~items[i].ok} \cup {Len(items) + 1})

\* The dicts posts.append adds while the page is processed.
Appended(resp) ==
    IF resp.kind # "list" THEN <<>>
    ELSE [i \in 1..(FirstBad(resp.items) - 1) |-> [logNo |-> resp.items[i].logNo]]

\* The requests after which the loop is left by break.
BreaksOnErrorOnly(resp) ==
    \/ resp.kind # "list"
    \/ FirstBad(resp.items) <= Len(resp.items)
Breaks(resp) ==
    \/ resp.kind # "list"
    \/ resp.items = <<>>
    \/ FirstBad(resp.items) <= Len(resp.items)
    \/ Len(resp.items) < CountPerPage

\* One iteration of "for page in range(1, max_pages + 1)"; after the last
\* one, or a break, get_post_list returns posts.
ListPage ==
    /\ lpc = "paging"
    /\ page < MaxPages
    /\ \E resp \in PageResponses :
        /\ page' = page + 1
        /\ served' = Append(served, resp)
        /\ post_list' = post_list \o Appended(resp)
        /\ lpc' = IF Breaks(resp) \/ page + 1 = MaxPages THEN "returned" ELSE "paging"
    /\ UNCHANGED <<limit, dateVars, unitVars, diskVars, mainVars, histVars,
                   exportVars, cfgVars, run>>

\* main after get_post_list: posts = posts[:args.limit], then one unit per
\* post is submitted to the executor.
Submit ==
    /\ lpc = "returned"
    /\ LET pl == IF limit > 0 /\ limit < Len(post_list)
                 THEN SubSeq(post_list, 1, limit) ELSE post_list
           U == 1..Len(pl)
       IN /\ post_list' = pl
          /\ idOf' = [u \in U |-> pl[u].logNo]
          /\ pc' = [u \in U |-> "queued"]
          /\ doc' = [u \in U |-> NoDoc]
          /\ k' = [u \in U |-> 0]
          /\ body' = [u \in U |-> <<>>]
          /\ result' = [u \in U |-> "none"]
          /\ fetches' = [u \in U |-> <<>>]
    /\ lpc' = "submitted"
    /\ page' = 0
    /\ served' = <<>>
    /\ found_count' = 0
    /\ reported' = {}
    /\ mainpc' = "collect"
    /\ UNCHANGED <<variant, workers, corpus, limit, dateVars, diskVars, touched,
                   torn, prior, errlog, exportVars, run>>

\* main of backup_naver.py is started with some --limit over an empty
\* output directory.
InitList ==
    /\ variant = "naver"
    /\ workers = MaxWorkers
    /\ corpus = BatchDocs
    /\ PipelineIdle
    /\ date_str = <<>>
    /\ stamp = NoStamp
    /\ page = 0
    /\ post_list = <<>>
    /\ lpc = "paging"
    /\ served = <<>>
    /\ limit \in 0..MaxWorkers

NextList ==
    \/ ListPage
    \/ Submit

SpecList == InitList /\ [][NextList]_vars

\* backup_naver.py as a whole: the post list is fetched, cut to --limit and
\* backed up by the workers.
InitNaver ==
    /\ InitList
    /\ limit = MaxWorkers

NextNaver ==
    \/ NextList
    \/ Next

SpecNaver == InitNaver /\ [][NextNaver]_vars

\* ------------------------------------------------------------------- claims
\* The record of identifier id as it reads back from disk.
OnDisk(id) == ParseRecord(posts[id].text)
Count(s, x) == Cardinality({i \in 1..Len(s) : s[i] = x})

\* C1 as stated: a unit whose fetched document has no title-matching
\* structure never creates or overwrites <id>.md and never reports success.
C1_NoTitleNoRecord ==
    \A u \in Units :
        (doc[u].status = "found" /\ ~doc[u].title)
        => (idOf[u] \notin touched /\ result[u] # "true")

\* C1 as amended: the Tistory unit is skipped on a missing title, the Naver
\* unit on a missing content container; a skipped unit leaves no <id>.md and
\* reports False.
C1_SkippedNeverWritten ==
    \A u \in Units :
        (/\ doc[u].status = "found"
         /\ variant = "tistory" => ~doc[u].title
         /\ variant = "naver" => ~doc[u].content)
        => (/\ idOf[u] \notin touched
            /\ posts[idOf[u]] = Absent
            /\ pc[u] = "done"
            /\ result[u] = "false")

\* C1 witness: a finished Tistory run in which a page with a body and no
\* title was skipped while another post was saved.
C1_Witness ==
    /\ variant = "tistory"
    /\ mainpc = "done"
    /\ \E u \in Units :
         doc[u] = Doc("found", FALSE, TRUE, <<>>) /\ result[u] = "false"
    /\ \E u \in Units : result[u] = "true"

\* The units that were found, not skipped and whose record write completed.
Saved == {u \in Units :
            /\ doc[u].status = "found"
            /\ variant = "tistory" => doc[u].title
            /\ variant = "naver" => doc[u].content
            /\ idOf[u] \in touched \ torn}

\* A run over three identifiers: one not found, one skipped, one saved.
ThreePostRun ==
    /\ Cardinality(Units) = 3
    /\ \E a, b, c \in Units :
        /\ doc[a].status = "notfound"
        /\ doc[b].status = "found" /\ result[b] = "false"
        /\ result[c] = "true"

\* C2: when main prints its summary, the count is the number of units that
\* were found, not skipped and whose record was written completely, and the
\* number of record files written completely in the run; a run over one
\* not-found, one skipped and one saved identifier counts 1 and leaves
\* exactly one record file.
C2_CountMatchesRecords ==
    mainpc = "done"
    => /\ found_count = Cardinality(Saved)
       /\ found_count = Cardinality(touched \ torn)
       /\ \A id \in touched \ torn : OnDisk(id).ok /\ OnDisk(id).id = id
       /\ ThreePostRun
          => found_count = 1 /\ Cardinality({id \in Ids : posts[id].exists}) = 1

\* C2 witness: the three-post run has ended with a count of 1.
C2_Witness == mainpc = "done" /\ ThreePostRun /\ found_count = 1

\* C3: a unit that raises is caught and printed against its identifier, the
\* batch never stops before the summary, every unit completes and is
\* reported, and only units that returned True are counted.
C3_FailureContained ==
    /\ mainpc # "done" => ENABLED Next
    /\ mainpc = "done"
       => /\ \A u \in Units : pc[u] = "done" /\ u \in reported
          /\ \A u \in Units : result[u] = "raised" => idOf[u] \in errlog
          /\ found_count = Cardinality({u \in Units : result[u] = "true"})
    /\ \A u \in reported : result[u] = "raised" => idOf[u] \in errlog

\* C3 witness: a finished run in which an earlier unit raised, was printed
\* against its identifier, and a later unit was saved and counted.
C3_Witness ==
    /\ mainpc = "done"
    /\ found_count = 1
    /\ \E u, w \in Units :
         /\ u < w
         /\ result[u] = "raised" /\ idOf[u] \in errlog
         /\ result[w] = "true"

\* The absolute URL the exporter of variant v emits for a local reference.
ExportUrl(v, r) == IF v = "tistory" THEN Abs(r.folder, r.file, r.url) ELSE NewUrl(r)

\* The URLs of a page that backup_post hands to download_image and that
\* download_image fetches.
Sources(v, d) ==
    {EffectiveSrc(v, d.imgs[i]) : i \in 1..Len(d.imgs)} \ ({NoUrl} \cup {Urel})
Entries(u) == {fetches[u][j] : j \in 1..Len(fetches[u])}

\* C4 as stated: a saved post whose K distinct asset sources were all fetched
\* successfully has exactly K files in its asset directory, and every
\* resolved reference of its record is local.
C4_ExactlyKFiles ==
    \A u \in Units :
        (/\ run = 1
         /\ result[u] = "true"
         /\ \A e \in Entries(u) : e.ok
         /\ {e.url : e \in Entries(u)} = Sources(variant, doc[u]))
        => /\ Cardinality(images[idOf[u]]) = Cardinality(Sources(variant, doc[u]))
           /\ \A e \in Entries(u) :
                LET r == OnDisk(idOf[u]).body[e.i]
                IN r.kind = "local" /\ r.file # NoFile

\* C5 as stated: in a re-run no GET is issued for an asset whose target file
\* was already on disk when the run started.
C5_NoRefetch ==
    \A u \in Units : \A e \in Entries(u) : ~e.existed

\* C6 as stated: in a saved record, a reference whose image GET failed is
\* still the original remote URL.
C6_FailedRefKeepsUrl ==
    \A u \in Units :
        result[u] = "true"
        => \A e \in Entries(u) :
             ~e.ok => OnDisk(idOf[u]).body[e.i] = Remote(e.url)

\* C7 as stated: a record whose write failed partway never reads back as a
\* valid record.
C7_TornNotValid ==
    \A id \in torn : ~OnDisk(id).ok


\* C8 as stated: a local path referenced more than once in a record occurs
\* exactly once, as its absolute URL, in the exported item.
C8_RepeatedRefOnce ==
    \A j \in 1..Len(out) :
        LET b == OnDisk(out[j].id).body
        IN \A m, n \in 1..Len(b) :
             (m < n /\ b[m] = b[n] /\ b[m].kind = "local")
             => Count(out[j].body, ExportUrl(variant, b[m])) = 1

\* C9 as stated: the items are emitted in ascending order of identifier.
C9_AscendingOrder ==
    \A i, j \in 1..Len(out) : i < j => out[i].id < out[j].id

\* C10 as stated: a record that cannot be read or parsed is skipped alone;
\* the export never stops on it, and the finished document holds every
\* other record between header and footer.
C10_BadRecordSkipped ==
    /\ xpc # "aborted"
    /\ xpc = "done"
       => /\ xfile = "complete"
          /\ \A id \in Ids :
               (posts[id].exists /\ OnDisk(id).ok /\ id \notin diag)
               => \E j \in 1..Len(out) : out[j].id = id

\* A date string in the platform's native form: 'Y. M. D.' alone or followed
\* by ' HH:MM', one space after each dot, naming a day that exists.
NativeDate(s) ==
    /\ Len(s) \in {8, 12}
    /\ s[1].t = "num" /\ s[1].w = 4
    /\ s[2] = Dot /\ s[3] = Sp
    /\ s[4].t = "num" /\ s[4].v \in 1..12
    /\ s[5] = Dot /\ s[6] = Sp
    /\ s[7].t = "num" /\ s[7].v \in 1..DaysIn(s[1].v, s[4].v)
    /\ s[8] = Dot
    /\ Len(s) = 12
       => /\ s[9] = Sp
          /\ s[10].t = "num" /\ s[10].v \in 0..23
          /\ s[11] = Colon
          /\ s[12].t = "num" /\ s[12].w = 2 /\ s[12].v \in 0..59

\* C11 as stated: a native date string with a time is normalized to that
\* date and time with seconds 00, a native date-only string to that date at
\* 00:00:00, and the current time is never substituted for either.
C11_NativeDateKept ==
    (stamp # NoStamp /\ NativeDate(date_str))
    => stamp = Stamp(date_str[1].v, date_str[4].v, date_str[7].v,
                     IF Len(date_str) = 12 THEN date_str[10].v ELSE 0,
                     IF Len(date_str) = 12 THEN date_str[12].v ELSE 0,
                     0)

\* A page that ends the listing in the claim's words: it failed to fetch or
\* parse, has no post list, or has fewer entries than the page size.
StoppingPage(resp) ==
    \/ resp.kind \in {"error", "nolist"}
    \/ Len(resp.items) < CountPerPage
    \/ \E i \in 1..Len(resp.items) : ~resp.items[i].ok

\* The posts of one page, and of the pages 1..n, in page order.
PagePosts(resp) == [i \in 1..Len(resp.items) |-> [logNo |-> resp.items[i].logNo]]
RECURSIVE PostsUpTo(_)
PostsUpTo(n) == IF n = 0 THEN <<>> ELSE PostsUpTo(n - 1) \o PagePosts(served[n])

\* Pages 1, 2, ... were requested in turn, none after a stopping page, and
\* the posts hold every earlier page whole and in page order, followed by
\* the entries of the last page that were read before it stopped.
PagedInOrder ==
    /\ page = Len(served)
    /\ \A i \in 1..(page - 1) : ~StoppingPage(served[i])
    /\ lpc = "paging" => \A i \in 1..page : ~StoppingPage(served[i])
    /\ lpc = "returned"
       => /\ page >= 1
          /\ \E n \in 0..Len(PagePosts(served[page])) :
               /\ post_list = PostsUpTo(page - 1) \o Prefix(PagePosts(served[page]), n)
               /\ (\A i \in 1..Len(served[page].items) : served[page].items[i].ok)
                  => n = Len(served[page].items)

\* C15 as stated: get_post_list returns only after a stopping page, with the
\* posts of every page before it, in page order, and requests no page after
\* the stopping page.
C15_StopsAtStoppingPage ==
    lpc \in {"paging", "returned"}
    => /\ PagedInOrder
       /\ lpc = "returned" => StoppingPage(served[page])

\* C15 as amended: get_post_list makes at most max_pages requests and
\* returns after the first stopping page or after page max_pages, whichever
\* comes first, with the posts of every page before it, in page order.
C15_StopsAtStoppingPageOrCap ==
    lpc \in {"paging", "returned"}
    => /\ PagedInOrder
       /\ page <= MaxPages
       /\ lpc = "paging" => page < MaxPages
       /\ lpc = "returned" => (StoppingPage(served[page]) \/ page = MaxPages)

\* C15 witness: the first page was full, the second failed, and the posts of
\* the first page were returned.
C15_Witness ==
    /\ lpc = "returned"
    /\ page = 2
    /\ ~StoppingPage(served[1])
    /\ served[2].kind = "error"
    /\ post_list = PagePosts(served[1])
    /\ Len(post_list) = CountPerPage

\* The unit has passed os.makedirs of its asset directory and is resolving
\* images, writing its record, or has done so.
PastMakedirs(u) == pc[u] \in {"images", "write"} \/ result[u] \in {"true", "raised"}

\* C12 as stated: no two distinct units of a run create or write the same
\* asset directory and record path, whatever the interleaving and whoever
\* supplied the units.
C12_NoSharedPath ==
    \A u, w \in Units :
        (u # w /\ PastMakedirs(u) /\ PastMakedirs(w)) => idOf[u] # idOf[w]

\* The URL backup_post hands to download_image for the i-th <img> of unit u.
SourceAt(u, i) == EffectiveSrc(variant, doc[u].imgs[i])

\* C13 as stated: in a post saved into an empty directory with every image
\* GET successful, two references to the same remote URL are rewritten to
\* the same local file, and the asset directory holds one file for that URL.
C13_SameUrlOneFile ==
    \A u \in Units :
        (run = 1 /\ result[u] = "true" /\ \A e \in Entries(u) : e.ok)
        => \A i, j \in 1..Len(doc[u].imgs) :
             (/\ i < j
              /\ SourceAt(u, i) = SourceAt(u, j)
              /\ SourceAt(u, i).scheme # "")
             => /\ OnDisk(idOf[u]).body[i] = OnDisk(idOf[u]).body[j]
                /\ OnDisk(idOf[u]).body[i].file # NoFile
                /\ Cardinality({f \in images[idOf[u]] : f.name = SourceAt(u, i).name}) = 1

\* C14 as stated: in a post saved into an empty directory with every image
\* GET successful, two different remote URLs whose paths end in the same
\* file name are stored as two files, the second under a suffixed name, and
\* each reference points at a file of its own.
C14_CollisionSuffixed ==
    \A u \in Units :
        (run = 1 /\ result[u] = "true" /\ \A e \in Entries(u) : e.ok)
        => \A i, j \in 1..Len(doc[u].imgs) :
             LET a == SourceAt(u, i)
                 b == SourceAt(u, j)
                 ri == OnDisk(idOf[u]).body[i]
                 rj == OnDisk(idOf[u]).body[j]
             IN (/\ i < j
                 /\ a # b
                 /\ a.scheme # "" /\ b.scheme # ""
                 /\ a.ext # ""
                 /\ a.name = b.name /\ a.ext = b.ext)
                => /\ ri.file = File(a.name, a.ext, 0)
                   /\ rj.file \in images[idOf[u]]
                   /\ rj.file.name = a.name /\ rj.file.ext = a.ext
                   /\ rj.file # ri.file

====
